---- MODULE Spec2Model ----
(***************************************************************************)
(* A model of socket.io-monitor's server (src/server.js): the interception *)
(* of the hub's operations (monkeyPatch, initEmitter), the per-connection  *)
(* authentication handshake and the roster of bound protocols with its     *)
(* dispatcher (connHandler), and the state snapshot (getState).            *)
(***************************************************************************)
EXTENDS Integers, Sequences, FiniteSets, TLC

(* ------------------------------- bounds -------------------------------- *)

\* Number of monitor connections the listener accepts in a run.
MaxConns == 2
\* Number of password messages a peer sends on one connection.
MaxPwd == 2
\* Number of intercepted hub calls and hub notifications in a run.
MaxCalls == 2
\* Number of inputs of the environment in a run: connections accepted and
\* closed, password messages, hub calls and hub notifications.
MaxInputs == 5
\* The same, in the runs that follow the handshake (AuthSpec).
AuthInputs == 5
\* The same, in the runs that follow the roster (RosterSpec).
RosterInputs == 6
\* The same, in the runs that follow the capture functions (CaptureSpec).
CaptureInputs == 3
\* The same, in the runs that follow the snapshot (SnapshotSpec).
SnapshotInputs == 2
\* Number of joins that made the hub's rooms before such a run starts.
MaxJoins == 3

Conns == 1..MaxConns

(* ------------------------------ options -------------------------------- *)

\* options.password when the option is absent (server.js line 129).
Null == "null"
Secret == "secret"
\* The configurations the runs start from: no password, or a shared secret.
PasswordOptions == {Null, Secret}
\* The password messages a peer may send.
PeerPasswords == {Secret, "wrong"}

VARIABLES
  password,    \* options.password
  sock,        \* per connection: the raw socket, "none" | "open" | "ended" | "closed"
  authorized,  \* per connection: the flag of line 172
  pwdHandler,  \* per connection: the proto.once('password', ...) listener is attached
  timer,       \* per connection: the auth timer, "none" | "pending" | "fired" | "cleared"
  pwds,        \* per connection: the password messages received so far
  protos,      \* the list of bound protocols (line 132)
  immediates,  \* the setImmediate callbacks queued by addProto, oldest first
  sent,        \* per connection: the messages proto.emit handed to the wire,
               \* in order (a send that throws hands over nothing)
  rooms,       \* io.sockets.adapter.rooms: the rooms in key order
  calls,       \* the number of hub calls and notifications so far
  pubs,        \* the publications so far: the number of the call and the
               \* roster at the moment of publication
  inputs,      \* the number of inputs of the environment so far
  hub,         \* the run's environment: the calls and notifications the hub
               \* makes, and the number of inputs
  last         \* what the last step did (the call, what was published, what ran)

vars == <<password, sock, authorized, pwdHandler, timer, pwds, protos,
          immediates, sent, rooms, calls, pubs, inputs, hub, last>>

connVars == <<sock, authorized, pwdHandler, timer, pwds>>

(* ------------------------- the wire session ---------------------------- *)

\* A message handed to a session's wire-send. ev numbers the hub call that
\* published a canonical event (0 for the handshake and snapshot messages).
Msg(name, body) == [name |-> name, body |-> body, ev |-> 0]
EventMsg(name, body, n) == [name |-> name, body |-> body, ev |-> n]

\* proto.emit(name, data): the message is handed to the connection's wire.
ProtoEmit(s, c, msg) == [s EXCEPT ![c] = Append(@, msg)]

\* socket.end(): the write side of an open socket is closed; the peer may
\* still deliver data until it closes its side.
SocketEnd(s, c) == [s EXCEPT ![c] = IF @ = "open" THEN "ended" ELSE @]

AuthOk == [authorized |-> TRUE]
AuthTimeout == [authorized |-> FALSE, error |-> "TIMEOUT"]
AuthInvalid == [authorized |-> FALSE, error |-> "INVALID_PASSWORD"]

(* ---------------------- the roster (connHandler) ----------------------- *)

\* !password (line 182): null and the empty string both mean "no password".
NoPassword == password = Null \/ password = ""

\* protos.concat([ proto ]) (line 134)
addProtoList(ps, c) == Append(ps, c)

\* protos.filter(p => p !== proto) (line 145)
removeProtoList(ps, c) == SelectSeq(ps, LAMBDA p : p # c)

\* One more input of the environment is taken.
Input ==
  /\ inputs < hub.inputs
  /\ inputs' = inputs + 1

InRoster(c) == \E i \in 1..Len(protos) : protos[i] = c

\* What a step that is no hub call and no snapshot step leaves in `last`.
NoStep == [step |-> "none"]

\* addProto (lines 133-143): the proto joins the roster and the snapshot
\* step is queued with setImmediate.
addProto(c) ==
  /\ protos' = addProtoList(protos, c)
  /\ immediates' = Append(immediates, c)

\* removeProto (lines 144-147): the proto leaves the roster and all its
\* listeners are removed.
removeProto(c) ==
  /\ protos' = removeProtoList(protos, c)
  /\ pwdHandler' = [pwdHandler EXCEPT ![c] = FALSE]

\* init (lines 175-178)
init(c) ==
  /\ authorized' = [authorized EXCEPT ![c] = TRUE]
  /\ addProto(c)

(* ---------------------- the handshake (connHandler) -------------------- *)

\* Connect with the round trip skipped: with no password configured the
\* connection is admitted as soon as it is accepted.
ConnectAdmits(c) ==
  /\ Input
  /\ sock[c] = "none"
  /\ \A d \in Conns : d < c => sock[d] # "none"
  /\ sock' = [sock EXCEPT ![c] = "open"]
  /\ IF NoPassword
       THEN /\ sent' = ProtoEmit(sent, c, Msg("reqAuth", FALSE))
            /\ timer' = timer
            /\ pwdHandler' = pwdHandler
            /\ init(c)
       ELSE /\ sent' = ProtoEmit(sent, c, Msg("reqAuth", TRUE))
            /\ timer' = [timer EXCEPT ![c] = "pending"]
            /\ pwdHandler' = [pwdHandler EXCEPT ![c] = TRUE]
            /\ UNCHANGED <<authorized, protos, immediates>>
  /\ last' = NoStep
  /\ UNCHANGED <<password, hub, pwds, rooms, calls, pubs>>

\* The connection handler (lines 164-203) runs for a new raw connection.
\* Connections are numbered in the order the listener accepts them.
Connect(c) ==
  /\ Input
  /\ sock[c] = "none"
  /\ \A d \in Conns : d < c => sock[d] # "none"
  /\ sock' = [sock EXCEPT ![c] = "open"]
  /\ pwdHandler' = [pwdHandler EXCEPT ![c] = TRUE]
  /\ IF NoPassword
       THEN /\ sent' = ProtoEmit(sent, c, Msg("reqAuth", FALSE))
            /\ timer' = timer
       ELSE /\ sent' = ProtoEmit(sent, c, Msg("reqAuth", TRUE))
            /\ timer' = [timer EXCEPT ![c] = "pending"]
  /\ last' = NoStep
  /\ UNCHANGED <<password, hub, authorized, pwds, protos, immediates, rooms, calls, pubs>>

\* clearTimeout on a handle that is not the timer's: the timer keeps running.
clearTimeoutOther(t, c) == t

\* clearTimeout(timeout) (line 194): a pending timer is cancelled.
clearTimeout(t, c) == [t EXCEPT ![c] = IF @ = "pending" THEN "cleared" ELSE @]

\* The password listener of lines 193-202 (a shared secret is configured).
onPasswordSecret(c, pwd) ==
  /\ timer' = clearTimeout(timer, c)
  /\ IF pwd = password
       THEN /\ sent' = ProtoEmit(sent, c, Msg("auth", AuthOk))
            /\ init(c)
            /\ sock' = sock
       ELSE /\ sent' = ProtoEmit(sent, c, Msg("auth", AuthInvalid))
            /\ sock' = SocketEnd(sock, c)
            /\ UNCHANGED <<authorized, protos, immediates>>

\* The password listener of line 185 (no password is configured).
onPasswordOpen(c, pwd) ==
  /\ init(c)
  /\ UNCHANGED <<timer, sent, sock>>

\* RecvPassword with the listener attached with on: it stays attached and
\* runs for every password message.
RecvPasswordOn(c, pwd) ==
  /\ Input
  /\ sock[c] \in {"open", "ended"}
  /\ Len(pwds[c]) < MaxPwd
  /\ pwds' = [pwds EXCEPT ![c] = Append(@, pwd)]
  /\ IF pwdHandler[c]
       THEN /\ pwdHandler' = pwdHandler
            /\ IF NoPassword THEN onPasswordOpen(c, pwd) ELSE onPasswordSecret(c, pwd)
       ELSE UNCHANGED <<pwdHandler, timer, sent, sock, authorized, protos, immediates>>
  /\ last' = NoStep
  /\ UNCHANGED <<password, hub, rooms, calls, pubs>>

\* A password message arrives on the connection. The listener was attached
\* with once: it is detached before it runs, and a message that finds no
\* listener is dropped.
RecvPassword(c, pwd) ==
  /\ Input
  /\ sock[c] \in {"open", "ended"}
  /\ Len(pwds[c]) < MaxPwd
  /\ pwds' = [pwds EXCEPT ![c] = Append(@, pwd)]
  /\ IF pwdHandler[c]
       THEN /\ pwdHandler' = [pwdHandler EXCEPT ![c] = FALSE]
            /\ IF NoPassword THEN onPasswordOpen(c, pwd) ELSE onPasswordSecret(c, pwd)
       ELSE UNCHANGED <<pwdHandler, timer, sent, sock, authorized, protos, immediates>>
  /\ last' = NoStep
  /\ UNCHANGED <<password, hub, rooms, calls, pubs>>

\* TimeoutFire without socket.end(): the peer is told, the socket stays open.
TimeoutFireNoEnd(c) ==
  /\ timer[c] = "pending"
  /\ timer' = [timer EXCEPT ![c] = "fired"]
  /\ sent' = ProtoEmit(sent, c, Msg("auth", AuthTimeout))
  /\ last' = NoStep
  /\ UNCHANGED <<password, hub, sock, authorized, pwdHandler, pwds, protos, immediates,
                 rooms, calls, pubs, inputs>>

\* The auth timer fires (lines 189-192).
TimeoutFire(c) ==
  /\ timer[c] = "pending"
  /\ timer' = [timer EXCEPT ![c] = "fired"]
  /\ sent' = ProtoEmit(sent, c, Msg("auth", AuthTimeout))
  /\ sock' = SocketEnd(sock, c)
  /\ last' = NoStep
  /\ UNCHANGED <<password, hub, authorized, pwdHandler, pwds, protos, immediates, rooms, calls, pubs, inputs>>

\* The socket's 'close' event (line 170).
Close(c) ==
  /\ Input
  /\ sock[c] \in {"open", "ended"}
  /\ sock' = [sock EXCEPT ![c] = "closed"]
  /\ removeProto(c)
  /\ last' = NoStep
  /\ UNCHANGED <<password, hub, authorized, timer, pwds, immediates, sent, rooms, calls, pubs>>


(* --------------------------- the hub's rooms --------------------------- *)

\* The identities of the hub's clients and the names of its rooms.
Ids == {"a"}

\* A room of io.sockets.adapter.rooms: its name (the key), its sockets
\* object as the list of its keys with their flags, and its length.
Room(name, sockets, length) == [name |-> name, sockets |-> sockets, length |-> length]

RoomIndex(rs, name) ==
  IF \E i \in 1..Len(rs) : rs[i].name = name
    THEN CHOOSE i \in 1..Len(rs) : rs[i].name = name
    ELSE 0

\* info.sockets[id]: the flag of the key, undefined (falsy) without the key.
Flag(info, id) == \E i \in 1..Len(info.sockets) : info.sockets[i].id = id /\ info.sockets[i].on

HasKey(info, id) == \E i \in 1..Len(info.sockets) : info.sockets[i].id = id

\* The hub's own add: the room is created when missing, and the id joins it.
hubAdd(rs, id, room) ==
  LET i == RoomIndex(rs, room)
      join(info) == IF HasKey(info, id) THEN info
                    ELSE Room(info.name,
                              Append(info.sockets, [id |-> id, on |-> TRUE]),
                              info.length + 1)
  IN IF i = 0 THEN Append(rs, join(Room(room, <<>>, 0)))
     ELSE [rs EXCEPT ![i] = join(@)]

\* The hub's own del: the id leaves the room, and an empty room is deleted.
hubDel(rs, id, room) ==
  LET i == RoomIndex(rs, room)
      leave(info) == IF HasKey(info, id)
                       THEN Room(info.name,
                                 SelectSeq(info.sockets, LAMBDA e : e.id # id),
                                 info.length - 1)
                       ELSE info
      left == [rs EXCEPT ![i] = leave(@)]
  IN IF i = 0 THEN rs
     ELSE SelectSeq(left, LAMBDA info : info.length # 0)

RECURSIVE hubDelAllFrom(_, _, _)
hubDelAllFrom(rs, id, names) ==
  IF names = <<>> THEN rs
  ELSE hubDelAllFrom(hubDel(rs, id, Head(names)), id, Tail(names))

\* The hub's own delAll: the id leaves every room.
hubDelAll(rs, id) == hubDelAllFrom(rs, id, [i \in 1..Len(rs) |-> rs[i].name])

(* ------------------------------ getState ------------------------------- *)

\* Object.keys(info.sockets).filter(id => info.sockets[id]) (line 224)
ActiveSockets(info) ==
  LET on == SelectSeq(info.sockets, LAMBDA e : e.on)
  IN [i \in 1..Len(on) |-> on[i].id]

\* The test of a personal room with the length left out: any room that
\* holds the identity of its own name.
PersonalByName(info) == Flag(info, info.name)

\* A personal room (line 218).
Personal(info) == info.length = 1 /\ Flag(info, info.name)

\* The rooms of the snapshot (lines 217-227), in key order.
RECURSIVE StateRooms(_)
StateRooms(rs) ==
  IF rs = <<>> THEN <<>>
  ELSE LET info == rs[Len(rs)]
           before == StateRooms(SubSeq(rs, 1, Len(rs) - 1))
       IN IF Personal(info) THEN before
          ELSE Append(before, [name |-> info.name, sockets |-> ActiveSockets(info)])

\* dict[id] = true for every id of the list: a new key is added at the end.
RECURSIVE AddKeys(_, _)
AddKeys(keys, ids) ==
  IF ids = <<>> THEN keys
  ELSE LET id == Head(ids)
           known == \E i \in 1..Len(keys) : keys[i] = id
       IN AddKeys(IF known THEN keys ELSE Append(keys, id), Tail(ids))

\* The sockets of the snapshot (lines 230-237): the keys of the dictionary.
RECURSIVE StateSockets(_)
StateSockets(rs) ==
  IF rs = <<>> THEN <<>>
  ELSE AddKeys(StateSockets(SubSeq(rs, 1, Len(rs) - 1)), ActiveSockets(rs[Len(rs)]))

\* getState (lines 209-240)
getState(rs) == [rooms |-> StateRooms(rs), sockets |-> StateSockets(rs)]


(* ---------------------- interception (initEmitter) --------------------- *)

\* The packet type of a data frame (line 63).
DataPacket == 2
\* A function-typed argument (a callback).
Fn == "<fn>"

Call(op, this, args) == [op |-> op, this |-> this, args |-> args]

\* The intercepted calls of the runs: the receiver is the adapter or the
\* hub connection with the given id. The second broadcast is a control
\* frame (packet type 0) without target rooms.
HubCalls ==
  { Call("add", "adapter", <<"a", "r">>),
    Call("add", "adapter", <<"a", "a">>),
    Call("del", "adapter", <<"a", "r">>),
    Call("delAll", "adapter", <<"a">>),
    Call("broadcast", "adapter",
         << [type |-> DataPacket, data |-> <<"chat", "hi">>],
            [rooms |-> <<"r">>,
             flags |-> <<[k |-> "volatile", v |-> FALSE], [k |-> "local", v |-> TRUE]>>] >>),
    Call("broadcast", "adapter",
         << [type |-> 0, data |-> <<"chat", "hi">>], [flags |-> <<>>] >>),
    Call("emit", "a", <<"msg", "x", Fn>>),
    Call("dispatch", "a", << <<"msg", "x">> >>) }

\* The hub's notifications: a new client, and a client's disconnection.
HubNotifications == { [kind |-> "connect", id |-> "a"], [kind |-> "disconnect", id |-> "a"] }

Event(kind, payload) == [kind |-> kind, payload |-> payload]

\* Object.keys(flags).filter(f => flags[f]) (line 65)
FlagsList(flags) ==
  LET on == SelectSeq(flags, LAMBDA f : f.v)
  IN [i \in 1..Len(on) |-> on[i].k]

\* A trailing function-typed argument is popped (lines 92-94, 100-102).
StripCallback(args) ==
  IF args # <<>> /\ args[Len(args)] = Fn THEN SubSeq(args, 1, Len(args) - 1) ELSE args

\* The capture function of broadcast with the test of the packet type
\* left out: every frame is published.
captureBroadcastAny(packet, opts) ==
  LET rs == IF "rooms" \in DOMAIN opts THEN opts.rooms ELSE <<>>
      flags == IF "flags" \in DOMAIN opts THEN opts.flags ELSE <<>>
  IN << Event("broadcast", [name |-> Head(packet.data),
                            args |-> Tail(packet.data),
                            rooms |-> rs,
                            flags |-> FlagsList(flags)]) >>

\* The capture function of broadcast (lines 62-68): rooms and flags take
\* their defaults when the options lack them.
captureBroadcast(packet, opts) ==
  LET rs == IF "rooms" \in DOMAIN opts THEN opts.rooms ELSE <<>>
      flags == IF "flags" \in DOMAIN opts THEN opts.flags ELSE <<>>
  IN IF packet.type = DataPacket
       THEN << Event("broadcast", [name |-> Head(packet.data),
                                   args |-> Tail(packet.data),
                                   rooms |-> rs,
                                   flags |-> FlagsList(flags)]) >>
       ELSE <<>>

\* The capture function of add with the test left out: every add is
\* published as a join.
captureAddAlways(id, room) == << Event("join", [id |-> id, room |-> room]) >>

\* The capture function of add (lines 71-75).
captureAdd(id, room) ==
  IF id # room THEN << Event("join", [id |-> id, room |-> room]) >> ELSE <<>>

\* The capture function of del (lines 76-78).
captureDel(id, room) == << Event("leave", [id |-> id, room |-> room]) >>

\* The capture function of delAll (lines 79-81).
captureDelAll(id) == << Event("leaveAll", [id |-> id]) >>

\* The capture functions (lines 62-81, 91-104): the events the call publishes.
Capture(call) ==
  CASE call.op = "broadcast" -> captureBroadcast(call.args[1], call.args[2])
    [] call.op = "add" -> captureAdd(call.args[1], call.args[2])
    [] call.op = "del" -> captureDel(call.args[1], call.args[2])
    [] call.op = "delAll" -> captureDelAll(call.args[1])
    [] call.op = "emit" ->
         << Event("emit", [id |-> call.this, name |-> Head(call.args),
                           args |-> StripCallback(Tail(call.args))]) >>
    [] call.op = "dispatch" ->
         << Event("recv", [id |-> call.this, name |-> Head(call.args[1]),
                           args |-> StripCallback(Tail(call.args[1]))]) >>

\* The events published for a notification of the hub (lines 85, 88).
Notification(n) == << Event(n.kind, [id |-> n.id]) >>

\* The hub's own operation behind an intercepted call: its effect on the rooms.
OrigEffect(rs, call) ==
  CASE call.op = "add" -> hubAdd(rs, call.args[1], call.args[2])
    [] call.op = "del" -> hubDel(rs, call.args[1], call.args[2])
    [] call.op = "delAll" -> hubDelAll(rs, call.args[1])
    [] OTHER -> rs

\* The hub's own operation behind an intercepted call: what it returns.
OrigReturn(call) == IF call.op = "emit" THEN call.this ELSE "undefined"

(* ------------------------- dispatch (connHandler) ---------------------- *)

\* The ways the publication of an event can fail: a listener of the event
\* attached before the dispatcher throws ("early": connHandler attaches the
\* dispatcher only once the server listens, lines 38-41, after the emitter
\* has been returned to the caller), the send to a session throws, or a
\* listener attached after the dispatcher throws ("late").
NoFault == [kind |-> "none", conns |-> {}]
Faults(evs, ps) ==
  {NoFault}
  \cup (IF evs = <<>> THEN {}
        ELSE {[kind |-> "early", conns |-> {}], [kind |-> "late", conns |-> {}]}
             \cup {[kind |-> "send", conns |-> {ps[i]}] : i \in 1..Len(ps)})

\* protos.forEach(proto => proto.emit(name, data)) (lines 148-150): the
\* sessions are sent the event in roster order; a send that throws ends the
\* loop. The result names the sessions sent the event and whether it threw.
dispatch(ps, throwing) ==
  LET bad == {i \in 1..Len(ps) : ps[i] \in throwing}
      stop == IF bad = {} THEN Len(ps) + 1
              ELSE CHOOSE i \in bad : \A j \in bad : i <= j
  IN [delivered |-> SubSeq(ps, 1, stop - 1), threw |-> bad # {}]

\* The event is handed to the wire of each session of the list.
Deliver(s, delivered, msg) ==
  [c \in Conns |->
     IF \E i \in 1..Len(delivered) : delivered[i] = c THEN Append(s[c], msg) ELSE s[c]]

\* emitter.emit(kind, payload): the listeners run in the order they were
\* attached; a listener that throws ends the emit and the error reaches the
\* caller of emit. The result names the sessions sent and whether it threw.
Publish(evs, ps, fault) ==
  IF evs = <<>> \/ fault.kind = "early"
    THEN [delivered |-> <<>>, threw |-> evs # <<>>]
    ELSE LET d == dispatch(ps, IF fault.kind = "send" THEN fault.conns ELSE {})
         IN [delivered |-> d.delivered, threw |-> d.threw \/ fault.kind = "late"]

\* monkeyPatch (lines 47-53): fn runs first; when it returns, orig runs
\* with the same receiver and arguments and its result is returned.
monkeyPatch(fnThrew, call) ==
  IF fnThrew
    THEN [order |-> <<"fn">>, orig |-> <<>>, ret |-> "none", threw |-> TRUE]
    ELSE [order |-> <<"fn", "orig">>, orig |-> <<call>>,
          ret |-> OrigReturn(call), threw |-> FALSE]

RECURSIVE OrigEffects(_, _)
OrigEffects(rs, origs) ==
  IF origs = <<>> THEN rs
  ELSE OrigEffects(OrigEffect(rs, Head(origs)), Tail(origs))

\* The record of a publication.
Published(evs, n, ps) ==
  IF evs = <<>> THEN <<>> ELSE << [ev |-> n, roster |-> ps] >>

\* The hub calls an intercepted operation.
HubCall(call, fault) ==
  /\ Input
  /\ calls < MaxCalls
  /\ calls' = calls + 1
  /\ LET evs == Capture(call)
         pub == Publish(evs, protos, fault)
         out == monkeyPatch(pub.threw, call)
     IN /\ sent' = IF evs = <<>> THEN sent
                   ELSE Deliver(sent, pub.delivered,
                                EventMsg(evs[1].kind, evs[1].payload, calls + 1))
        /\ rooms' = OrigEffects(rooms, out.orig)
        /\ pubs' = pubs \o Published(evs, calls + 1, protos)
        /\ last' = [step |-> "call", call |-> call, fault |-> fault,
                    published |-> evs, roster |-> protos,
                    delivered |-> pub.delivered, out |-> out]
  /\ UNCHANGED <<password, hub, connVars, protos, immediates>>

\* The hub signals a new client or a client's disconnection (lines 84-88).
HubNotify(n, fault) ==
  /\ Input
  /\ calls < MaxCalls
  /\ calls' = calls + 1
  /\ LET evs == Notification(n)
         pub == Publish(evs, protos, fault)
     IN /\ sent' = Deliver(sent, pub.delivered,
                           EventMsg(evs[1].kind, evs[1].payload, calls + 1))
        /\ pubs' = pubs \o Published(evs, calls + 1, protos)
        /\ last' = [step |-> "notify", fault |-> fault,
                    published |-> evs, roster |-> protos,
                    delivered |-> pub.delivered, threw |-> pub.threw]
  /\ UNCHANGED <<password, hub, connVars, protos, immediates, rooms>>

(* ----------------------- the snapshot step (addProto) ------------------ *)

\* The ways the snapshot step can fail: getState rejects, or a listener of
\* 'client' throws.
SnapshotFaults == {"none", "getState", "client"}

\* ImmediateStep with init handed to the dispatcher: every session of the
\* roster is sent the init of the new one.
ImmediateStepToAll(fault) ==
  /\ immediates # <<>>
  /\ LET c == Head(immediates)
         data == getState(rooms)
     IN /\ immediates' = Tail(immediates)
        /\ IF fault = "none"
             THEN /\ sent' = Deliver(ProtoEmit(sent, c, Msg("init", data)),
                                     removeProtoList(protos, c), Msg("init", data))
                  /\ last' = [step |-> "immediate", conn |-> c, fault |-> fault,
                              client |-> << [client |-> c, state |-> data] >>]
             ELSE /\ sent' = ProtoEmit(sent, c, Msg("error", fault))
                  /\ last' = [step |-> "immediate", conn |-> c, fault |-> fault,
                              client |-> IF fault = "client"
                                           THEN << [client |-> c, state |-> data] >>
                                           ELSE <<>>]
  /\ UNCHANGED <<password, hub, connVars, protos, rooms, calls, pubs, inputs>>

\* ImmediateStep with a failure that also retires the session: it is sent
\* the error and leaves the roster.
ImmediateStepRetires(fault) ==
  /\ immediates # <<>>
  /\ LET c == Head(immediates)
         data == getState(rooms)
     IN /\ immediates' = Tail(immediates)
        /\ IF fault = "none"
             THEN /\ sent' = ProtoEmit(sent, c, Msg("init", data))
                  /\ protos' = protos
                  /\ last' = [step |-> "immediate", conn |-> c, fault |-> fault,
                              client |-> << [client |-> c, state |-> data] >>]
             ELSE /\ sent' = ProtoEmit(sent, c, Msg("error", fault))
                  /\ protos' = removeProtoList(protos, c)
                  /\ last' = [step |-> "immediate", conn |-> c, fault |-> fault,
                              client |-> IF fault = "client"
                                           THEN << [client |-> c, state |-> data] >>
                                           ELSE <<>>]
  /\ UNCHANGED <<password, hub, connVars, rooms, calls, pubs, inputs>>

\* The setImmediate callback of addProto (lines 135-142) and the promise
\* chain it starts: the snapshot is computed, 'client' is emitted, and the
\* session is sent init; a failure is sent as an error message.
ImmediateStep(fault) ==
  /\ immediates # <<>>
  /\ LET c == Head(immediates)
         data == getState(rooms)
     IN /\ immediates' = Tail(immediates)
        /\ IF fault = "none"
             THEN /\ sent' = ProtoEmit(sent, c, Msg("init", data))
                  /\ last' = [step |-> "immediate", conn |-> c, fault |-> fault,
                              client |-> << [client |-> c, state |-> data] >>]
             ELSE /\ sent' = ProtoEmit(sent, c, Msg("error", fault))
                  /\ last' = [step |-> "immediate", conn |-> c, fault |-> fault,
                              client |-> IF fault = "client"
                                           THEN << [client |-> c, state |-> data] >>
                                           ELSE <<>>]
  /\ UNCHANGED <<password, hub, connVars, protos, rooms, calls, pubs, inputs>>

(* --------------------------- the specification ------------------------- *)

\* The state after construction: no connection, an empty roster, and a hub
\* with the given repertoire whose rooms are one of the given states.
InitFrom(repertoire, roomStates) ==
  /\ hub = repertoire
  /\ password \in PasswordOptions
  /\ sock = [c \in Conns |-> "none"]
  /\ authorized = [c \in Conns |-> FALSE]
  /\ pwdHandler = [c \in Conns |-> FALSE]
  /\ timer = [c \in Conns |-> "none"]
  /\ pwds = [c \in Conns |-> <<>>]
  /\ protos = <<>>
  /\ immediates = <<>>
  /\ sent = [c \in Conns |-> <<>>]
  /\ rooms \in roomStates
  /\ calls = 0
  /\ pubs = <<>>
  /\ inputs = 0
  /\ last = NoStep

\* The monitor is attached to a hub that has no room yet.
InitWith(repertoire) == InitFrom(repertoire, {<<>>})

\* The hub makes every intercepted call.
Init == InitWith([calls |-> HubCalls, notes |-> HubNotifications, inputs |-> MaxInputs])

\* The hub only adds a member to a room and signals a new client.
SmallHub(n) ==
  [calls |-> {Call("add", "adapter", <<"a", "r">>)},
   notes |-> {[kind |-> "connect", id |-> "a"]},
   inputs |-> n]

\* The identities and the room names of the membership calls.
MemberIds == {"a", "b"}
RoomNames == {"a", "b", "r"}

\* Every add and del of an identity to and from a room, and every delAll.
MemberCalls ==
  { Call(op, "adapter", <<id, room>>) :
      op \in {"add", "del"}, id \in MemberIds, room \in RoomNames }
  \cup { Call("delAll", "adapter", <<id>>) : id \in MemberIds }

\* The packet types of the hub's protocol: 2 is an event, the others are
\* connect, disconnect, ack, error and the binary frames.
PacketTypes == 0..6
Payloads == { <<"chat">>, <<"chat", "hi", "yo">> }

\* The options of a broadcast: target rooms and flags, either may be absent.
BroadcastOptions ==
  { [rooms |-> <<"r", "s">>,
     flags |-> <<[k |-> "volatile", v |-> FALSE], [k |-> "local", v |-> TRUE]>>],
    [rooms |-> <<>>,
     flags |-> <<[k |-> "volatile", v |-> TRUE], [k |-> "local", v |-> TRUE]>>],
    [flags |-> <<[k |-> "volatile", v |-> FALSE], [k |-> "local", v |-> FALSE]>>],
    [rooms |-> <<"r">>] }

\* Every broadcast of a frame of any type with these payloads and options.
BroadcastCalls ==
  { Call("broadcast", "adapter", << [type |-> t, data |-> d], opts >>) :
      t \in PacketTypes, d \in Payloads, opts \in BroadcastOptions }

\* The hub makes every membership call and every broadcast.
CaptureInit ==
  InitWith([calls |-> MemberCalls \cup BroadcastCalls,
            notes |-> {[kind |-> "connect", id |-> "a"]},
            inputs |-> CaptureInputs])

\* The rooms the hub can have after at most n joins of its clients.
RECURSIVE JoinedWithin(_)
JoinedWithin(n) ==
  IF n = 0 THEN { <<>> }
  ELSE LET before == JoinedWithin(n - 1)
       IN before \cup { hubAdd(rs, id, room) :
                          rs \in before, id \in MemberIds, room \in RoomNames }

\* The monitor is attached to a hub whose clients have joined rooms.
SnapshotInit == InitFrom(SmallHub(SnapshotInputs), JoinedWithin(MaxJoins))

AuthInit == InitWith(SmallHub(AuthInputs))

RosterInit == InitWith(SmallHub(RosterInputs))

Next ==
  \/ \E c \in Conns : Connect(c)
  \/ \E c \in Conns, pwd \in PeerPasswords : RecvPassword(c, pwd)
  \/ \E c \in Conns : TimeoutFire(c)
  \/ \E c \in Conns : Close(c)
  \/ \E call \in hub.calls : \E fault \in Faults(Capture(call), protos) : HubCall(call, fault)
  \/ \E n \in hub.notes : \E fault \in Faults(Notification(n), protos) : HubNotify(n, fault)
  \/ \E fault \in SnapshotFaults : ImmediateStep(fault)

Spec == Init /\ [][Next]_vars

\* The handshake against a hub with a small repertoire.
AuthSpec == AuthInit /\ [][Next]_vars

\* The roster against a hub with a small repertoire, in longer runs.
RosterSpec == RosterInit /\ [][Next]_vars

\* The capture functions against every membership call and broadcast.
CaptureSpec == CaptureInit /\ [][Next]_vars

\* The snapshot against the rooms of a hub that was running before.
SnapshotSpec == SnapshotInit /\ [][Next]_vars

\* The timers run: a pending auth timer fires unless it is cancelled first.
FairSpec == AuthSpec /\ \A c \in Conns : WF_vars(TimeoutFire(c))


(* ------------------------------ the claims ----------------------------- *)

Named(c, name) == SelectSeq(sent[c], LAMBDA m : m.name = name)

\* The bodies of the auth messages sent to the connection, in order.
AuthBodies(c) == [i \in 1..Len(Named(c, "auth")) |-> Named(c, "auth")[i].body]

\* The canonical events sent to the connection, in order.
EventsSent(c) == SelectSeq(sent[c], LAMBDA m : m.ev > 0)

Ended(c) == sock[c] \in {"ended", "closed"}

\* The handshake of the connection has failed: it was sent a refusal.
HandshakeFailed(c) ==
  \E i \in 1..Len(AuthBodies(c)) : ~AuthBodies(c)[i].authorized

\* C1: once the handshake of a connection has failed (the timeout elapsed,
\* or its first password did not match), the connection is ended and is
\* never admitted to the roster, whatever arrives on it later.
C1_FailedNeverAdmitted ==
  \A c \in Conns :
    HandshakeFailed(c) => Ended(c) /\ ~authorized[c] /\ ~InRoster(c)

\* C2: with a shared secret, the first password message received before
\* the timeout decides: equal to the secret, the peer is sent
\* auth({authorized: true}) and nothing else, and the connection is
\* admitted (it is in the roster until it closes); different, the peer is
\* sent auth({authorized: false, error: 'INVALID_PASSWORD'}) and nothing
\* else, the connection is ended and is not admitted, whatever the later
\* password messages carry.
C2_FirstPasswordDecides ==
  \A c \in Conns :
    (~NoPassword /\ timer[c] = "cleared") =>
      IF pwds[c][1] = password
        THEN /\ AuthBodies(c) = <<AuthOk>>
             /\ authorized[c]
             /\ InRoster(c) \/ sock[c] = "closed"
        ELSE /\ AuthBodies(c) = <<AuthInvalid>>
             /\ Ended(c)
             /\ ~authorized[c]
             /\ ~InRoster(c)

\* C2's case: one connection sent a wrong password and then the secret,
\* while another was admitted on its first password.
C2_Witness ==
  /\ ~NoPassword
  /\ \E c \in Conns :
       /\ timer[c] = "cleared"
       /\ Len(pwds[c]) = 2 /\ pwds[c][1] # password /\ pwds[c][2] = password
  /\ \E d \in Conns :
       timer[d] = "cleared" /\ pwds[d][1] = password /\ InRoster(d)

TimeoutSent(c) == \E i \in 1..Len(AuthBodies(c)) : AuthBodies(c)[i] = AuthTimeout

\* C3: with a shared secret, a connection whose timer is pending does not
\* stay so forever: either a password message arrives first and cancels
\* the timer, or the timer fires, and then the connection has been sent
\* auth({authorized: false, error: 'TIMEOUT'}) and is ended.
C3_TimeoutEventually ==
  \A c \in Conns :
    (timer[c] = "pending") ~>
      \/ timer[c] = "cleared" /\ pwds[c] # <<>>
      \/ timer[c] = "fired" /\ TimeoutSent(c) /\ Ended(c)

\* C3's case: a connection that sent no password was sent TIMEOUT and ended.
C3_Witness ==
  \E c \in Conns : pwds[c] = <<>> /\ timer[c] = "fired" /\ TimeoutSent(c) /\ Ended(c)

Queued(c) == \E i \in 1..Len(immediates) : immediates[i] = c

Count(seq, x) == Cardinality({i \in 1..Len(seq) : seq[i] = x})

\* What C4 says of every connection when no password is configured, but
\* for the outcome of the snapshot step.
OpenHandshake(c) ==
  /\ sent[c][1] = Msg("reqAuth", FALSE)
  /\ Len(Named(c, "reqAuth")) = 1
  /\ pwds[c] = <<>> =>
       ~authorized[c] /\ ~InRoster(c) /\ ~Queued(c) /\ Named(c, "init") = <<>>
  /\ pwds[c] # <<>> =>
       authorized[c] /\ (InRoster(c) \/ sock[c] = "closed")
  /\ Count(protos, c) <= 1
  /\ Count(immediates, c) + Len(Named(c, "init")) + Len(Named(c, "error")) <= 1

\* C4 as stated: with no password configured, a connection is sent
\* reqAuth(false), is not admitted before its password message, and once
\* that message is received and the snapshot step has run it has been
\* sent init exactly once, however many password messages it sent.
C4_InitExactlyOnce ==
  \A c \in Conns :
    (NoPassword /\ sock[c] # "none") =>
      /\ OpenHandshake(c)
      /\ (pwds[c] # <<>> /\ ~Queued(c)) => Len(Named(c, "init")) = 1

\* C4 amended: ... it has been sent init exactly once, or, when the
\* snapshot step failed, one error message and no init.
C4_InitOnceUnlessFailed ==
  \A c \in Conns :
    (NoPassword /\ sock[c] # "none") =>
      /\ OpenHandshake(c)
      /\ (pwds[c] # <<>> /\ ~Queued(c)) =>
           \/ Len(Named(c, "init")) = 1 /\ Named(c, "error") = <<>>
           \/ Named(c, "init") = <<>> /\ Len(Named(c, "error")) = 1

\* C4's case: a connection that sent two password messages is in the
\* roster and was sent init once, after reqAuth(false).
C4_Witness ==
  /\ NoPassword
  /\ \E c \in Conns :
       /\ Len(pwds[c]) = 2
       /\ InRoster(c)
       /\ Len(sent[c]) >= 2
       /\ sent[c][2].name = "init"
       /\ Len(Named(c, "init")) = 1


InSeq(seq, x) == \E i \in 1..Len(seq) : seq[i] = x

\* The number of times the connection was sent the event of call n.
TimesSent(c, n) == Cardinality({i \in 1..Len(sent[c]) : sent[c][i].ev = n})

\* The last step published a canonical event.
Publishing == last.step \in {"call", "notify"} /\ last.published # <<>>

\* The last step's publication raised an error into the hub.
Raised == IF last.step = "call" THEN last.out.threw ELSE last.threw

\* C5: every published canonical event is sent to exactly the sessions of
\* the roster at the moment of publication, each once, in roster order,
\* with the event's kind as name and its payload as body; a connection is
\* sent no event that was published while it was not admitted.
C5_SentToRosterExactly ==
  /\ \A i \in 1..Len(pubs) : \A c \in Conns :
       TimesSent(c, pubs[i].ev) = IF InSeq(pubs[i].roster, c) THEN 1 ELSE 0
  /\ \A c \in Conns : \A k \in 1..Len(EventsSent(c)) :
       /\ authorized[c]
       /\ \E i \in 1..Len(pubs) : pubs[i].ev = EventsSent(c)[k].ev
  /\ Publishing =>
       /\ last.delivered = last.roster
       /\ \A k \in 1..Len(last.delivered) :
            sent[last.delivered[k]][Len(sent[last.delivered[k]])]
              = EventMsg(last.published[1].kind, last.published[1].payload, calls)

\* C6: of two canonical events published one after the other, every
\* session of the roster is sent the first before any session is sent the
\* second, and each session is sent its events in publication order.
C6_PublicationOrder ==
  /\ \A c \in Conns : \A k \in 1..Len(EventsSent(c)) - 1 :
       EventsSent(c)[k].ev < EventsSent(c)[k + 1].ev
  /\ \A i \in 1..Len(pubs) : \A j \in 1..Len(pubs) :
       (i < j /\ \E d \in Conns : TimesSent(d, pubs[j].ev) > 0) =>
         \A c \in Conns : InSeq(pubs[i].roster, c) => TimesSent(c, pubs[i].ev) > 0

\* An admitted session has retired: its connection has closed.
Retired(c) == authorized[c] /\ sock[c] = "closed"

\* C7: when the connection of an admitted session closes, the session
\* leaves the roster and its listeners are detached, it is sent no
\* canonical event published afterwards, the other sessions stay in the
\* roster in the same order and are sent every later event; retiring again,
\* or retiring a connection that is not in the roster, changes nothing.
C7_RetireLeavesOthers ==
  /\ [](\A c \in Conns :
          /\ sock[c] = "closed" => ~InRoster(c) /\ ~pwdHandler[c]
          /\ removeProtoList(removeProtoList(protos, c), c) = removeProtoList(protos, c)
          /\ ~InRoster(c) => removeProtoList(protos, c) = protos)
  /\ []((Publishing /\ \E d \in Conns : Retired(d)) =>
          \A k \in 1..Len(last.roster) : InSeq(last.delivered, last.roster[k]))
  /\ [][\A c \in Conns :
          /\ sock[c] = "closed" => EventsSent(c)' = EventsSent(c)
          /\ (sock[c] # "closed" /\ sock'[c] = "closed") =>
               /\ protos' = SelectSeq(protos, LAMBDA p : p # c)
               /\ sent' = sent]_vars

\* C8: for every call of an intercepted operation, the original operation
\* runs exactly once, after the capture function, with the receiver and the
\* arguments of the call; its result is returned, and the hub's rooms are
\* what the original operation alone makes them.
C8_OriginalRunsOnce ==
  [][last'.step = "call" =>
       /\ last'.out.order = <<"fn", "orig">>
       /\ last'.out.orig = << last'.call >>
       /\ last'.out.ret = OrigReturn(last'.call)
       /\ rooms' = OrigEffect(rooms, last'.call)]_vars

\* C9: when a listener of the published event throws inside an intercepted
\* call, the error does not reach the hub's caller: the original operation
\* still runs and returns.
C9_CaptureFailureContained ==
  (last.step = "call" /\ last.fault.kind # "none") =>
    /\ ~last.out.threw
    /\ Len(last.out.orig) = 1
    /\ last.out.ret = OrigReturn(last.call)

\* C10: when the send of a canonical event to one session of the roster
\* throws, every other session of the roster is still sent the event, and
\* no error is raised into the hub operation that published it.
C10_SendFailureIsolated ==
  (Publishing /\ last.fault.kind = "send") =>
    /\ \A k \in 1..Len(last.roster) :
         last.roster[k] \notin last.fault.conns => InSeq(last.delivered, last.roster[k])
    /\ ~Raised


\* C11: no canonical event is sent to a session before the init message of
\* that session has been sent.
C11_InitBeforeEvents ==
  \A c \in Conns : \A k \in 1..Len(sent[c]) :
    sent[c][k].ev > 0 => \E j \in 1..(k - 1) : sent[c][j].name = "init"

\* A password message has just been received on the connection while its
\* timer was pending.
PasswordBeatsTimer(c) == timer[c] = "pending" /\ Len(pwds[c]') > Len(pwds[c])

\* C14: a password message received before the timer fires, valid or not,
\* cancels the timer; after that the timer stays cancelled, the connection
\* is never sent auth({authorized: false, error: 'TIMEOUT'}), and an
\* authorized connection is not ended by the timer.
C14_PasswordCancelsTimer ==
  /\ [][\A c \in Conns :
          /\ PasswordBeatsTimer(c) => timer[c]' = "cleared"
          /\ timer[c] = "cleared" => timer[c]' = "cleared"]_vars
  /\ [](\A c \in Conns :
          timer[c] = "cleared" =>
            /\ ~TimeoutSent(c)
            /\ authorized[c] => sock[c] # "ended")

\* C14's case: one connection's timer was cancelled by a wrong password,
\* another's by the secret, and the second is still open and admitted.
C14_Witness ==
  \E c \in Conns, d \in Conns :
    /\ timer[c] = "cleared" /\ pwds[c][1] # password /\ ~authorized[c]
    /\ timer[d] = "cleared" /\ pwds[d][1] = password /\ authorized[d]
    /\ sock[d] = "open" /\ InRoster(d)

\* C18: once the connection of a client has closed, it is sent no message
\* of any kind any more and it is not in the roster.
C18_SilentAfterClose ==
  [][\A c \in Conns :
       sock[c] = "closed" => sent[c]' = sent[c] /\ ~InRoster(c)']_vars

\* C19: over its whole life a connection is sent at most one auth message.
C19_OneAuthOutcome ==
  \A c \in Conns : Len(AuthBodies(c)) <= 1

\* The connection has just been sent an init message.
InitSent(c) == Len(Named(c, "init")') > Len(Named(c, "init"))

\* C15: a connection is admitted to the roster in the step that authorizes
\* it, and that step sends it no init but queues the snapshot step; init is
\* sent by that later step, carries the snapshot of the hub's rooms at that
\* step, goes to the new session alone, and the 'client' notification of
\* the step names the session and carries the same snapshot.
C15_InitDeferred ==
  [][\A c \in Conns :
       /\ (~authorized[c] /\ authorized[c]') =>
            /\ ~InRoster(c) /\ InRoster(c)'
            /\ ~Queued(c) /\ Queued(c)'
            /\ Named(c, "init")' = Named(c, "init")
       /\ InitSent(c) =>
            /\ authorized[c] /\ Queued(c)
            /\ last'.step = "immediate" /\ last'.conn = c
            /\ sent'[c] = Append(sent[c], Msg("init", getState(rooms')))
            /\ \A d \in Conns \ {c} : sent'[d] = sent[d]
            /\ last'.client = << [client |-> c, state |-> getState(rooms')] >>]_vars

\* C15's case: with another session in the roster and a room in the hub,
\* the snapshot step of a session has just sent it init.
C15_Witness ==
  /\ last.step = "immediate" /\ last.fault = "none"
  /\ Len(protos) = 2
  /\ InRoster(last.conn)
  /\ last.client[1].state.rooms # <<>>
  /\ sent[last.conn][Len(sent[last.conn])].name = "init"

\* The snapshot step of the session has failed.
SnapshotFailed(c) == Named(c, "error") # <<>>

Called(op) == last.step = "call" /\ last.call.op = op

\* The number of publications recorded for the last call.
PublishedNow == Cardinality({i \in 1..Len(pubs) : pubs[i].ev = calls})

\* C12: an add(id, room) publishes the join event {id, room} exactly once
\* when id differs from room and publishes nothing when id equals room (no
\* session is sent anything); del(id, room) always publishes leave
\* {id, room} and delAll(id) always publishes leaveAll {id}.
C12_JoinUnlessOwnRoom ==
  /\ Called("add") =>
       /\ last.published =
            IF last.call.args[1] # last.call.args[2]
              THEN << [kind |-> "join",
                       payload |-> [id |-> last.call.args[1], room |-> last.call.args[2]]] >>
              ELSE <<>>
       /\ PublishedNow = IF last.call.args[1] # last.call.args[2] THEN 1 ELSE 0
       /\ last.call.args[1] = last.call.args[2] =>
            \A c \in Conns : TimesSent(c, calls) = 0
  /\ Called("del") =>
       /\ last.published =
            << [kind |-> "leave",
                payload |-> [id |-> last.call.args[1], room |-> last.call.args[2]]] >>
       /\ PublishedNow = 1
  /\ Called("delAll") =>
       /\ last.published = << [kind |-> "leaveAll", payload |-> [id |-> last.call.args[1]]] >>
       /\ PublishedNow = 1

\* C12's case: with a session in the roster, an identity was added to the
\* room of its own name, and nothing was published or sent.
C12_Witness ==
  /\ Called("add")
  /\ last.call.args[1] = last.call.args[2]
  /\ protos # <<>>
  /\ last.published = <<>>
  /\ \A c \in Conns : EventsSent(c) = <<>>

\* The names of the flags of the object whose value is truthy.
TruthyFlags(flags) == {flags[i].k : i \in {j \in 1..Len(flags) : flags[j].v}}

\* The list names exactly the truthy flags of the object, each once.
IsFlagsList(list, flags) ==
  /\ {list[i] : i \in 1..Len(list)} = TruthyFlags(flags)
  /\ Len(list) = Cardinality(TruthyFlags(flags))

\* C17: a broadcast publishes an event exactly when its frame has packet
\* type 2; the event is a broadcast whose name is the first element of the
\* frame's payload, whose args are the remaining elements in order, whose
\* rooms are the target rooms (none when the options name none) and whose
\* flags are the names of the flags with a truthy value.
C17_BroadcastCaptured ==
  Called("broadcast") =>
    LET packet == last.call.args[1]
        opts == last.call.args[2]
    IN IF packet.type = 2
         THEN /\ Len(last.published) = 1
              /\ PublishedNow = 1
              /\ last.published[1].kind = "broadcast"
              /\ last.published[1].payload.name = packet.data[1]
              /\ last.published[1].payload.args
                   = [i \in 1..(Len(packet.data) - 1) |-> packet.data[i + 1]]
              /\ last.published[1].payload.rooms
                   = IF "rooms" \in DOMAIN opts THEN opts.rooms ELSE <<>>
              /\ IsFlagsList(last.published[1].payload.flags,
                             IF "flags" \in DOMAIN opts THEN opts.flags ELSE <<>>)
         ELSE /\ last.published = <<>>
              /\ PublishedNow = 0
              /\ \A c \in Conns : TimesSent(c, calls) = 0

\* C17's case: a session of the roster was sent the broadcast of a data
\* frame with two arguments, one flag set and one flag clear.
C17_Witness ==
  /\ Called("broadcast")
  /\ last.call.args[1].type = 2
  /\ Len(last.call.args[1].data) = 3
  /\ last.delivered # <<>>
  /\ \E c \in Conns :
       /\ sent[c] # <<>>
       /\ sent[c][Len(sent[c])].name = "broadcast"
       /\ sent[c][Len(sent[c])].body.flags = <<"local">>
       /\ sent[c][Len(sent[c])].body.rooms = <<"r", "s">>

\* The identities that are active members of the room of the hub.
Members(info) == {info.sockets[i].id : i \in {j \in 1..Len(info.sockets) : info.sockets[j].on}}

\* The membership of the room is the single identity of its own name.
OwnRoom(info) == Members(info) = {info.name}

\* The list names exactly the elements of the set, each once.
Lists(list, set) ==
  /\ {list[i] : i \in 1..Len(list)} = set
  /\ Len(list) = Cardinality(set)

\* C13: the rooms of a computed snapshot are the rooms of the hub, in
\* order, but for those whose membership is the single identity of their
\* own name, each with exactly its active members; the sockets of the
\* snapshot are the active members of all the rooms, each once.
C13_SnapshotOfRooms ==
  (last.step = "immediate" /\ last.client # <<>>) =>
    LET snap == last.client[1].state
        kept == SelectSeq(rooms, LAMBDA info : ~OwnRoom(info))
    IN /\ Len(snap.rooms) = Len(kept)
       /\ \A i \in 1..Len(kept) :
            /\ snap.rooms[i].name = kept[i].name
            /\ Lists(snap.rooms[i].sockets, Members(kept[i]))
       /\ Lists(snap.sockets, UNION {Members(rooms[i]) : i \in 1..Len(rooms)})

\* C13's case: a snapshot was computed of a hub with the own room of one
\* identity (omitted) and the room named after another identity that holds
\* both (kept, and the identities are listed once in sockets).
C13_Witness ==
  /\ last.step = "immediate" /\ last.fault = "none"
  /\ \E i \in 1..Len(rooms) : OwnRoom(rooms[i])
  /\ \E i \in 1..Len(rooms) :
       rooms[i].name \in Members(rooms[i]) /\ Cardinality(Members(rooms[i])) = 2
  /\ Len(last.client[1].state.rooms) = 1
  /\ Len(last.client[1].state.sockets) = 2
  /\ sent[last.conn][Len(sent[last.conn])].body = last.client[1].state

\* What a client knows of the hub: the memberships of the listed rooms, as
\* pairs of room and identity, and the identities of the sockets.
View(state) ==
  [members |-> UNION { {<<state.rooms[i].name, state.rooms[i].sockets[j]>> :
                          j \in 1..Len(state.rooms[i].sockets)} :
                       i \in 1..Len(state.rooms) },
   sockets |-> {state.sockets[i] : i \in 1..Len(state.sockets)}]

\* The view after a canonical event: a join adds a membership, a leave
\* removes one, a leaveAll removes the identity; the other events change
\* no membership.
ApplyEvent(view, msg) ==
  CASE msg.name = "join" ->
         [members |-> view.members \cup {<<msg.body.room, msg.body.id>>},
          sockets |-> view.sockets \cup {msg.body.id}]
    [] msg.name = "leave" ->
         [members |-> view.members \ {<<msg.body.room, msg.body.id>>},
          sockets |-> view.sockets]
    [] msg.name = "leaveAll" ->
         [members |-> {m \in view.members : m[2] # msg.body.id},
          sockets |-> view.sockets \ {msg.body.id}]
    [] OTHER -> view

RECURSIVE ApplyEvents(_, _)
ApplyEvents(view, msgs) ==
  IF msgs = <<>> THEN view
  ELSE ApplyEvents(ApplyEvent(view, Head(msgs)), Tail(msgs))

\* The position of the init message among the messages sent to the session.
InitAt(c) == CHOOSE k \in 1..Len(sent[c]) : sent[c][k].name = "init"

\* C20: for a session of the roster that was sent init, the snapshot of
\* init with the canonical events sent after it applied, in order, is the
\* hub's current rooms and sockets.
C20_SnapshotThenEvents ==
  \A c \in Conns :
    (InRoster(c) /\ Named(c, "init") # <<>>) =>
      ApplyEvents(View(sent[c][InitAt(c)].body),
                  SubSeq(sent[c], InitAt(c) + 1, Len(sent[c])))
        = View(getState(rooms))

====
